---- MODULE Spec2Model ----
(***************************************************************************)
(* A model of @platformatic/image-optimizer: the queue result codec        *)
(* (queueResultSerde, result-serde.ts) and the signature detector          *)
(* (detectImageType, operations.ts).                                       *)
(*                                                                         *)
(* Bytes are integers 0..255.  A Buffer is a sequence of bytes; index i of *)
(* the source (0-based) is element i+1 here.  A JavaScript string is a     *)
(* sequence of UTF-16 code units.  A 64-bit quantity (a bigint read from   *)
(* the wire, or a JavaScript number that may reach 2^53) is kept as its    *)
(* eight big-endian base-256 digits, so that values beyond the range of    *)
(* the model checker's integers are exact.                                 *)
(***************************************************************************)
EXTENDS Integers, Sequences, FiniteSets, TLC

----------------------------------------------------------------------------
(* Bounds of the model.                                                    *)

\* the longest image buffer, in bytes, and the most UTF-16 code units the
\* two strings of one result hold together
MaxBufLen == 1
MaxStrUnits == 2

----------------------------------------------------------------------------
(* 64-bit quantities as eight big-endian digits.                           *)

UINT64_SIZE == 8

RECURSIVE DigitsOf(_, _)
\* the k low base-256 digits of the natural number n, most significant first
DigitsOf(n, k) ==
  IF k = 0 THEN <<>> ELSE Append(DigitsOf(n \div 256, k - 1), n % 256)

\* BigInt(n) for a number n the model checker can hold
BigInt(n) == DigitsOf(n, UINT64_SIZE)

\* Number.MAX_SAFE_INTEGER = 2^53 - 1 = 0x001FFFFFFFFFFFFF
MAX_SAFE_INTEGER == <<0, 31, 255, 255, 255, 255, 255, 255>>

RECURSIVE BigGT(_, _)
\* a > b for two digit sequences of the same length
BigGT(a, b) ==
  IF a = <<>> THEN FALSE
  ELSE IF Head(a) # Head(b) THEN Head(a) > Head(b)
  ELSE BigGT(Tail(a), Tail(b))

RECURSIVE AddCarry(_, _, _, _)
\* digits 1..i of a + b (+ carry chain from the digits after i), modulo 2^64
AddCarry(a, b, i, carry) ==
  IF i = 0 THEN <<>>
  ELSE LET s == a[i] + b[i] + carry
       IN  Append(AddCarry(a, b, i - 1, s \div 256), s % 256)

\* a + b on 64-bit quantities
BigAdd(a, b) == AddCarry(a, b, UINT64_SIZE, 0)

RECURSIVE BigLow(_, _)
\* the value of the digit sequence d taken as a base-256 numeral
BigLow(d, acc) ==
  IF d = <<>> THEN acc ELSE BigLow(Tail(d), acc * 256 + Head(d))

\* a 64-bit quantity used as an index into a buffer of length len: indices
\* beyond the buffer are clamped to its end, as Buffer.subarray and
\* Buffer.toString do
ClampIndex(d, len) ==
  IF BigGT(d, BigInt(len)) THEN len ELSE BigLow(SubSeq(d, 5, 8), 0)

----------------------------------------------------------------------------
(* UTF-8.                                                                  *)

IsHighSurrogate(u) == u >= 55296 /\ u <= 56319
IsLowSurrogate(u) == u >= 56320 /\ u <= 57343

\* the UTF-8 bytes of one code point
CodePointBytes(cp) ==
  IF cp < 128 THEN <<cp>>
  ELSE IF cp < 2048 THEN <<192 + (cp \div 64), 128 + (cp % 64)>>
  ELSE IF cp < 65536
    THEN <<224 + (cp \div 4096), 128 + ((cp \div 64) % 64), 128 + (cp % 64)>>
  ELSE <<240 + (cp \div 262144), 128 + ((cp \div 4096) % 64),
         128 + ((cp \div 64) % 64), 128 + (cp % 64)>>

\* U+FFFD, which replaces what cannot be encoded or decoded
REPLACEMENT == 65533

RECURSIVE Utf8Chars(_)
\* the UTF-8 encoding of the string s, one byte sequence per character: a
\* surrogate pair is one character of four bytes, an unpaired surrogate is
\* encoded as U+FFFD
Utf8Chars(s) ==
  IF s = <<>> THEN <<>>
  ELSE LET u == Head(s)
       IN  IF IsHighSurrogate(u) /\ Len(s) >= 2 /\ IsLowSurrogate(s[2])
             THEN <<CodePointBytes(65536 + (u - 55296) * 1024 + (s[2] - 56320))>>
                  \o Utf8Chars(Tail(Tail(s)))
           ELSE IF IsHighSurrogate(u) \/ IsLowSurrogate(u)
             THEN <<CodePointBytes(REPLACEMENT)>> \o Utf8Chars(Tail(s))
           ELSE <<CodePointBytes(u)>> \o Utf8Chars(Tail(s))

RECURSIVE Flatten(_)
Flatten(ss) == IF ss = <<>> THEN <<>> ELSE Head(ss) \o Flatten(Tail(ss))

\* s.length taken for the byte length: the number of code units
ByteLengthInUnits(s) == Len(s)

\* Buffer.byteLength(s): the number of UTF-8 bytes of s
ByteLength(s) == Len(Flatten(Utf8Chars(s)))

IsContinuation(b, lo, hi) == b >= lo /\ b <= hi

\* the UTF-16 code units of one decoded code point
CodePointUnits(cp) ==
  IF cp < 65536 THEN <<cp>>
  ELSE <<55296 + ((cp - 65536) \div 1024), 56320 + ((cp - 65536) % 1024)>>

RECURSIVE Utf8Decode(_, _, _)
\* buf.toString('utf8', start, end) from 1-based position i up to and
\* including position last: ill-formed input decodes to U+FFFD, one per
\* maximal ill-formed subpart
Utf8Decode(buf, i, last) ==
  IF i > last THEN <<>>
  ELSE LET b == buf[i]
           need == IF b >= 194 /\ b <= 223 THEN 1
                   ELSE IF b >= 224 /\ b <= 239 THEN 2
                   ELSE IF b >= 240 /\ b <= 244 THEN 3
                   ELSE 0
           lo2 == IF b = 224 THEN 160 ELSE IF b = 240 THEN 144 ELSE 128
           hi2 == IF b = 237 THEN 159 ELSE IF b = 244 THEN 143 ELSE 191
           ok2 == i + 1 <= last /\ IsContinuation(buf[i + 1], lo2, hi2)
           ok3 == ok2 /\ i + 2 <= last /\ IsContinuation(buf[i + 2], 128, 191)
           ok4 == ok3 /\ i + 3 <= last /\ IsContinuation(buf[i + 3], 128, 191)
       IN  IF b < 128 THEN <<b>> \o Utf8Decode(buf, i + 1, last)
           ELSE IF need = 0 THEN <<REPLACEMENT>> \o Utf8Decode(buf, i + 1, last)
           ELSE IF need = 1 THEN
             IF ok2
               THEN <<(b - 192) * 64 + (buf[i + 1] - 128)>>
                    \o Utf8Decode(buf, i + 2, last)
               ELSE <<REPLACEMENT>> \o Utf8Decode(buf, i + 1, last)
           ELSE IF need = 2 THEN
             IF ok3
               THEN <<(b - 224) * 4096 + (buf[i + 1] - 128) * 64
                      + (buf[i + 2] - 128)>>
                    \o Utf8Decode(buf, i + 3, last)
               ELSE <<REPLACEMENT>>
                    \o Utf8Decode(buf, IF ok2 THEN i + 2 ELSE i + 1, last)
           ELSE
             IF ok4
               THEN CodePointUnits((b - 240) * 262144 + (buf[i + 1] - 128) * 4096
                                   + (buf[i + 2] - 128) * 64 + (buf[i + 3] - 128))
                    \o Utf8Decode(buf, i + 4, last)
               ELSE <<REPLACEMENT>>
                    \o Utf8Decode(buf, IF ok3 THEN i + 3
                                       ELSE IF ok2 THEN i + 2 ELSE i + 1, last)

----------------------------------------------------------------------------
(* Values of the codec.                                                    *)

\* an absent string field: null and undefined, neither of them a sequence
\* of code units
Null == <<-1>>
Undefined == <<-2>>

\* v != null (loose inequality: false for null and for undefined)
NotNullish(v) == v # Null /\ v # Undefined

\* the truthiness of a string or absent value: the empty string is falsy
Truthy(v) == NotNullish(v) /\ v # <<>>

----------------------------------------------------------------------------
(* Buffer primitives.                                                      *)

\* Buffer.allocUnsafe(size): the memory is not initialised, every byte is
\* whatever fill(i) the allocator left there
AllocUnsafe(size, fill) == [i \in 1..size |-> fill]

\* target with the bytes of src laid over it from 0-based offset off; bytes
\* that would fall beyond the target are dropped
Overlay(target, src, off) ==
  [i \in 1..Len(target) |->
     IF i > off /\ i <= off + Len(src) THEN src[i - off] ELSE target[i]]

\* buf.writeBigUInt64BE(big, off)
WriteBigUInt64BE(buf, big, off) == Overlay(buf, big, off)

\* src.copy(target, off)
Copy(src, target, off) == Overlay(target, src, off)

RECURSIVE FittingChars(_, _)
\* the bytes of the leading characters of chars that fit in room bytes
FittingChars(chars, room) ==
  IF chars = <<>> \/ Len(Head(chars)) > room THEN <<>>
  ELSE Head(chars) \o FittingChars(Tail(chars), room - Len(Head(chars)))

\* buf.write(s, off, 'utf8'): whole characters only, as many as fit
WriteUtf8(buf, s, off) ==
  Overlay(buf, FittingChars(Utf8Chars(s), Len(buf) - off), off)

----------------------------------------------------------------------------
(* queueResultSerde.serialize                                              *)

serialize(v, fill) ==
  LET imageBuffer == v.buffer
      contentTypeLength ==
        IF NotNullish(v.contentType) THEN ByteLength(v.contentType) ELSE 0
      cacheControlLength ==
        IF NotNullish(v.cacheControl) THEN ByteLength(v.cacheControl) ELSE 0
      totalSize == UINT64_SIZE * 3 + Len(imageBuffer) + contentTypeLength
                   + cacheControlLength
      s0 == AllocUnsafe(totalSize, fill)
      s1 == WriteBigUInt64BE(s0, BigInt(Len(imageBuffer)), 0)
      s2 == Copy(imageBuffer, s1, UINT64_SIZE)
      offset1 == UINT64_SIZE + Len(imageBuffer)
      s3 == WriteBigUInt64BE(s2, BigInt(contentTypeLength), offset1)
      s4 == IF Truthy(v.contentType)
              THEN WriteUtf8(s3, v.contentType, offset1 + UINT64_SIZE)
              ELSE s3
      offset2 == offset1 + UINT64_SIZE + contentTypeLength
      s5 == WriteBigUInt64BE(s4, BigInt(cacheControlLength), offset2)
      s6 == IF Truthy(v.cacheControl)
              THEN WriteUtf8(s5, v.cacheControl, offset2 + UINT64_SIZE)
              ELSE s5
  IN  s6

----------------------------------------------------------------------------
(* queueResultSerde.deserialize                                            *)

ErrPrefix == "Invalid queue result payload: "

\* the outcome of a deserialize call that throws; touched is the largest
\* end index (exclusive, 0-based) the call asked the buffer for
Thrown(msg, touched) ==
  [error |-> msg, buffer |-> <<>>, contentType |-> Null,
   cacheControl |-> Null, touched |-> touched]

\* the outcome of a deserialize call that returns
Returned(buffer, contentType, cacheControl, touched) ==
  [error |-> "", buffer |-> buffer, contentType |-> contentType,
   cacheControl |-> cacheControl, touched |-> touched]

\* raw.readBigUInt64BE(offset) throws a RangeError unless
\* offset + 8 <= raw.length
ReadOutOfRange(raw, offset) ==
  BigGT(BigAdd(offset, BigInt(UINT64_SIZE)), BigInt(Len(raw)))

RangeError == "ERR_OUT_OF_RANGE"

\* raw.readBigUInt64BE(offset), for an offset in range
ReadBigUInt64BE(raw, offset) ==
  LET o == ClampIndex(offset, Len(raw)) IN SubSeq(raw, o + 1, o + UINT64_SIZE)

\* raw.subarray(start, end)
Subarray(raw, start, end) ==
  SubSeq(raw, ClampIndex(start, Len(raw)) + 1, ClampIndex(end, Len(raw)))

\* raw.toString('latin1', start, end): one code unit per byte
ToStringLatin1(raw, start, end) ==
  SubSeq(raw, ClampIndex(start, Len(raw)) + 1, ClampIndex(end, Len(raw)))

\* raw.toString('ascii', start, end): the low seven bits of each byte
ToStringAscii(raw, start, end) ==
  LET bytes == SubSeq(raw, ClampIndex(start, Len(raw)) + 1,
                      ClampIndex(end, Len(raw)))
  IN  [i \in 1..Len(bytes) |-> bytes[i] % 128]

\* raw.toString('utf8', start, end)
ToStringUtf8(raw, start, end) ==
  Utf8Decode(raw, ClampIndex(start, Len(raw)) + 1, ClampIndex(end, Len(raw)))

BigMax(a, b) == IF BigGT(a, b) THEN a ELSE b

\* offset > available: the size of the prefix left out of the check
MissingLengthNoSize(offset, available) == BigGT(offset, available)

\* lengthRaw > 2^53: the bound taken one too high
TooLargeAbove(lengthRaw) == BigGT(lengthRaw, <<0, 32, 0, 0, 0, 0, 0, 0>>)

\* the checks of a length prefix at cursor offset: "missing" when fewer
\* than 8 bytes remain, then "too large" beyond MAX_SAFE_INTEGER
MissingLength(offset, available) ==
  BigGT(BigAdd(offset, BigInt(UINT64_SIZE)), available)

TooLarge(lengthRaw) == BigGT(lengthRaw, MAX_SAFE_INTEGER)

\* length >= 0
NotNegative(length) == ~BigGT(BigInt(0), length)

\* offset > available
PastTheEnd(offset, available) == BigGT(offset, available)

\* offset + length > available: the size of the prefix left out
ExceedsTotalNoSize(offset, length, available) ==
  BigGT(BigAdd(offset, length), available)

\* length > 0
Positive(length) == BigGT(length, BigInt(0))

\* offset !== available
TrailingBytesLeft(offset, available) == offset # available

\* offset + UINT64_SIZE + length > available
ExceedsTotal(offset, length, available) ==
  BigGT(BigAdd(BigAdd(offset, BigInt(UINT64_SIZE)), length), available)

\* the cache control field and the trailing-bytes check, lines 75-100
deserializeCacheControl(raw, available, offset, buffer, contentType, touched0) ==
  IF MissingLength(offset, available)
    THEN Thrown(ErrPrefix \o "missing cache control length", touched0)
  ELSE IF ReadOutOfRange(raw, offset)
    THEN Thrown(RangeError, BigAdd(offset, BigInt(UINT64_SIZE)))
  ELSE
    LET cacheControlLengthRaw == ReadBigUInt64BE(raw, offset)
        start == BigAdd(offset, BigInt(UINT64_SIZE))
        touched1 == BigMax(touched0, start)
    IN  IF TooLarge(cacheControlLengthRaw)
          THEN Thrown(ErrPrefix \o "cache control length is too large", touched1)
        ELSE
          LET cacheControlLength == cacheControlLengthRaw
              end == BigAdd(start, cacheControlLength)
              positive == Positive(cacheControlLength)
          IN  IF positive /\ ExceedsTotal(offset, cacheControlLength, available)
                THEN Thrown(ErrPrefix
                            \o "cache control length exceeds total buffer size",
                            touched1)
              ELSE
                LET cacheControl ==
                      IF positive THEN ToStringUtf8(raw, start, end) ELSE Null
                    touched2 == IF positive THEN BigMax(touched1, end) ELSE touched1
                IN  IF TrailingBytesLeft(end, available)
                      THEN Thrown(ErrPrefix \o "trailing bytes found", touched2)
                      ELSE Returned(buffer, contentType, cacheControl, touched2)

\* the content type field, lines 55-73
deserializeContentType(raw, available, offset, buffer, touched0) ==
  IF MissingLength(offset, available)
    THEN Thrown(ErrPrefix \o "missing content type length", touched0)
  ELSE IF ReadOutOfRange(raw, offset)
    THEN Thrown(RangeError, BigAdd(offset, BigInt(UINT64_SIZE)))
  ELSE
    LET contentTypeLengthRaw == ReadBigUInt64BE(raw, offset)
        start == BigAdd(offset, BigInt(UINT64_SIZE))
        touched1 == BigMax(touched0, start)
    IN  IF TooLarge(contentTypeLengthRaw)
          THEN Thrown(ErrPrefix \o "content type length is too large", touched1)
        ELSE
          LET contentTypeLength == contentTypeLengthRaw
              end == BigAdd(start, contentTypeLength)
              positive == Positive(contentTypeLength)
          IN  IF positive /\ ExceedsTotal(offset, contentTypeLength, available)
                THEN Thrown(ErrPrefix
                            \o "content type length exceeds total buffer size",
                            touched1)
              ELSE
                LET contentType ==
                      IF positive THEN ToStringUtf8(raw, start, end) ELSE Null
                    touched2 == IF positive THEN BigMax(touched1, end) ELSE touched1
                IN  deserializeCacheControl(raw, available, end, buffer,
                                            contentType, touched2)

\* the image buffer field, lines 35-53, and the rest of the call
deserialize(raw) ==
  LET available == BigInt(Len(raw))
      offset == BigInt(0)
  IN  IF MissingLength(offset, available)
        THEN Thrown(ErrPrefix \o "missing image buffer length", BigInt(0))
      ELSE IF ReadOutOfRange(raw, offset)
        THEN Thrown(RangeError, BigAdd(offset, BigInt(UINT64_SIZE)))
      ELSE
        LET bufferLengthRaw == ReadBigUInt64BE(raw, offset)
            start == BigAdd(offset, BigInt(UINT64_SIZE))
        IN  IF TooLarge(bufferLengthRaw)
              THEN Thrown(ErrPrefix \o "image buffer length is too large", start)
            ELSE
              LET bufferLength == bufferLengthRaw
                  end == BigAdd(start, bufferLength)
              IN  IF ExceedsTotal(offset, bufferLength, available)
                    THEN Thrown(ErrPrefix
                                \o "image buffer length exceeds total buffer size",
                                start)
                  ELSE deserializeContentType(raw, available, end,
                                              Subarray(raw, start, end), end)

----------------------------------------------------------------------------
(* The codec as a state machine: a result is serialized, the blob sits in  *)
(* the queue's result store, where it may be replaced by other bytes, and  *)
(* is deserialized.                                                        *)

VARIABLES
  value,     \* the Image<Buffer> handed to serialize
  raw,       \* the blob: serialize's output, then deserialize's input
  out,       \* the outcome of deserialize
  pc,        \* "input", "wire" or "done"
  tampered   \* whether the blob was replaced after serialize wrote it

serdeVars == <<value, raw, out, pc, tampered>>

\* The detector as a state machine: one step per entry of the outer loop.
VARIABLES
  registry,   \* the ordered signature table
  buffer,     \* the bytes to classify
  e,          \* the number of registry entries the scan has gone past
  result,     \* the returned type, or NullType
  matched,    \* the 1-based index of the entry that matched, 0 for none
  read,       \* the highest 1-based position of the buffer read so far
  dpc         \* "scan", "done" or "idle"

detectVars == <<registry, buffer, e, result, matched, read, dpc>>

\* optimize as a state machine: the detection runs first, then one step
\* for each way through the decision chain, then the codec's answer.
VARIABLES
  definitions,      \* animatableTypes and bypassTypes of definitions.ts
  args,             \* width, quality and allowSVG of the call
  source,           \* what the collaborators find in the buffer: whether
                    \* it holds several frames, its width and its height
  isAnimatedCalls,  \* the number of calls made to isAnimated
  sharpCalls,       \* the pipelines handed to the codec, in order
  sharpAnswers,     \* how the codec settled them: "resolved", "rejected"
  outcome,          \* what optimize returned or threw
  opc               \* "detect", "codec", "done" or "idle"

optimizeVars ==
  <<definitions, args, source, isAnimatedCalls, sharpCalls, sharpAnswers,
    outcome, opc>>

\* fetchAndOptimize as a state machine: the response arrives, then either
\* the error is thrown or optimize runs on the body and the result is built.
VARIABLES
  response,   \* the upstream response
  fetched,    \* what fetchAndOptimize returned or threw
  fpc         \* "fetch", "optimize", "done" or "idle"

fetchVars == <<response, fetched, fpc>>

\* The Queue class as a state machine: calls of start, stop and
\* fetchAndOptimize run side by side, each from one await to the next.
VARIABLES
  queue,           \* #queue: the job queue referred to, 0 for null
  started,         \* #started
  jobQueues,       \* the job queues constructed so far, each "starting",
                   \* "started", "stopping" or "stopped"
  jobQueueModule,  \* what loading @platformatic/job-queue gives
  calls,           \* the calls made on the Queue, in the order made
  enqueued,        \* the enqueueAndWait calls #enqueueAndWait reached
  overlapped,      \* whether a call was made while another was under way
  queued           \* what Queue.fetchAndOptimize returned or threw

queueVars ==
  <<queue, started, jobQueues, jobQueueModule, calls, enqueued, overlapped,
    queued>>

vars == <<serdeVars, detectVars, optimizeVars, fetchVars, queueVars>>

\* the Queue when it is not under study
QueueIdle ==
  /\ queue = 0
  /\ started = FALSE
  /\ jobQueues = <<>>
  /\ jobQueueModule =
       [loaded |-> FALSE,
        error |-> [name |-> "none", code |-> "undefined", message |-> <<>>]]
  /\ calls = <<>>
  /\ enqueued = <<>>
  /\ overlapped = FALSE
  /\ queued = [kind |-> "pending"]

\* a call that has not ended
Pending == [kind |-> "pending"]

\* optimize when no call is under way
OptimizeIdle ==
  /\ definitions = [animatableTypes |-> {}, bypassTypes |-> {}]
  /\ args = [width |-> 1, quality |-> 1, allowSVG |-> FALSE]
  /\ source = [animated |-> FALSE, width |-> 1, height |-> 1]
  /\ isAnimatedCalls = 0
  /\ sharpCalls = <<>>
  /\ sharpAnswers = <<>>
  /\ outcome = Pending
  /\ opc = "idle"

\* fetchAndOptimize when no call is under way
FetchIdle ==
  /\ response = [status |-> 200, statusText |-> "OK", body |-> <<>>,
                 contentType |-> Null, cacheControl |-> Null]
  /\ fetched = Pending
  /\ fpc = "idle"

\* the bytes image buffers are made of, the code units strings are made of
\* (A, the euro sign, a high and a low surrogate), and what
\* uninitialised memory may hold
BufferBytes == {200}
CodeUnits == {65, 8364, 55357, 56832}
FillBytes == {0, 170}

SeqsUpTo(S, n) == UNION {[1..k -> S] : k \in 0..n}

StringValues == {Null, Undefined} \cup SeqsUpTo(CodeUnits, MaxStrUnits)

UnitsOf(v) == IF NotNullish(v) THEN Len(v) ELSE 0

Images ==
  {v \in [buffer : SeqsUpTo(BufferBytes, MaxBufLen),
          contentType : StringValues,
          cacheControl : StringValues] :
     UnitsOf(v.contentType) + UnitsOf(v.cacheControl) <= MaxStrUnits}

NoOutcome == Thrown("not called", BigInt(0))

\* the detector when no detection is under way
DetectIdle ==
  /\ registry = <<>>
  /\ buffer = <<>>
  /\ e = 0
  /\ result = <<>>
  /\ matched = 0
  /\ read = 0
  /\ dpc = "idle"

\* Blobs that some other writer left in the store: three fields, each an
\* 8-byte length followed by that many bytes, the bytes of the two string
\* fields being any bytes at all (A, and the two bytes of the copyright
\* sign in either order, alone or together).
StoredBytes == {65, 194, 169}

StoredBlobs ==
  {BigInt(Len(b)) \o b \o BigInt(Len(s)) \o s \o BigInt(Len(t)) \o t :
     b \in SeqsUpTo(BufferBytes, MaxBufLen),
     s \in SeqsUpTo(StoredBytes, MaxStrUnits),
     t \in SeqsUpTo(StoredBytes, MaxStrUnits)}

\* a result about to be serialized, or a blob read back from the store
\* that this process did not write
SerdeInit ==
  /\ \/ /\ value \in Images
        /\ raw = <<>>
        /\ pc = "input"
        /\ tampered = FALSE
     \/ /\ value = [buffer |-> <<>>, contentType |-> Null,
                    cacheControl |-> Null]
        /\ raw \in StoredBlobs
        /\ pc = "wire"
        /\ tampered = TRUE
  /\ out = NoOutcome
  /\ DetectIdle
  /\ OptimizeIdle
  /\ FetchIdle
  /\ QueueIdle

Serialize ==
  /\ pc = "input"
  /\ \E fill \in FillBytes : raw' = serialize(value, fill)
  /\ pc' = "wire"
  /\ UNCHANGED <<value, out, tampered>>
  /\ UNCHANGED <<detectVars, optimizeVars, fetchVars, queueVars>>

\* the store hands back only the first k bytes of the blob
Truncate ==
  /\ pc = "wire" /\ ~tampered
  /\ \E k \in 0..(Len(raw) - 1) : raw' = SubSeq(raw, 1, k)
  /\ tampered' = TRUE
  /\ UNCHANGED <<value, out, pc>>
  /\ UNCHANGED <<detectVars, optimizeVars, fetchVars, queueVars>>

\* the store hands back the blob with bytes added at its end
ExtraBytes == {<<0>>, <<65>>, <<0, 65>>}

TrailingBytes ==
  /\ pc = "wire" /\ ~tampered
  /\ \E extra \in ExtraBytes : raw' = raw \o extra
  /\ tampered' = TRUE
  /\ UNCHANGED <<value, out, pc>>
  /\ UNCHANGED <<detectVars, optimizeVars, fetchVars, queueVars>>

\* the store hands back the blob with one of its three length prefixes
\* replaced
TamperLengths ==
  {BigInt(0), BigInt(1), BigInt(2), BigInt(9),
   MAX_SAFE_INTEGER,
   <<0, 32, 0, 0, 0, 0, 0, 0>>,
   <<255, 255, 255, 255, 255, 255, 255, 255>>}

PrefixOffsets(v) ==
  LET n == Len(v.buffer)
      m == IF NotNullish(v.contentType) THEN ByteLength(v.contentType) ELSE 0
  IN  {0, UINT64_SIZE + n, 2 * UINT64_SIZE + n + m}

OverwriteLength ==
  /\ pc = "wire" /\ ~tampered
  /\ \E off \in PrefixOffsets(value), d \in TamperLengths :
       /\ Overlay(raw, d, off) # raw
       /\ raw' = Overlay(raw, d, off)
  /\ tampered' = TRUE
  /\ UNCHANGED <<value, out, pc>>
  /\ UNCHANGED <<detectVars, optimizeVars, fetchVars, queueVars>>

Deserialize ==
  /\ pc = "wire"
  /\ out' = deserialize(raw)
  /\ pc' = "done"
  /\ UNCHANGED <<value, raw, tampered>>
  /\ UNCHANGED <<detectVars, optimizeVars, fetchVars, queueVars>>

SerdeNext ==
  \/ Serialize
  \/ Truncate
  \/ TrailingBytes
  \/ OverwriteLength
  \/ Deserialize

SpecSerde == SerdeInit /\ [][SerdeNext]_vars

----------------------------------------------------------------------------
(* detectImageType: the signature registry and the scan.                   *)

\* a pattern position that matches any byte
WILDCARD == -1

\* a type tag is a string, kept as its sequence of characters
\* the signature registry of definitions.ts: the entries the specification,
\* the tests and the fixtures give bytes for (JPEG, PNG, WEBP with its four
\* wildcard bytes, the "<svg" opening, and JP2)
imageTypes ==
  << [key |-> <<"j", "p", "e", "g">>, bytes |-> <<255, 216, 255>>],
     [key |-> <<"p", "n", "g">>,
      bytes |-> <<137, 80, 78, 71, 13, 10, 26, 10>>],
     [key |-> <<"w", "e", "b", "p">>,
      bytes |-> <<82, 73, 70, 70, WILDCARD, WILDCARD, WILDCARD, WILDCARD,
                  87, 69, 66, 80>>],
     [key |-> <<"s", "v", "g">>, bytes |-> <<60, 115, 118, 103>>],
     [key |-> <<"j", "p", "2">>,
      bytes |-> <<0, 0, 0, 12, 106, 80, 32, 32, 13, 10, 135, 10>>] >>

\* buffer[i] for a 1-based position i: undefined beyond the buffer
UndefinedByte == -2
At(buf, i) == IF i >= 1 /\ i <= Len(buf) THEN buf[i] ELSE UndefinedByte

Max(a, b) == IF a > b THEN a ELSE b

RECURSIVE CompareNoWildcard(_, _, _, _)
\* the inner loop without the test for a wildcard position
CompareNoWildcard(buf, bytes, i, seen) ==
  IF i > Len(bytes) THEN [match |-> TRUE, read |-> seen]
  ELSE IF At(buf, i) # bytes[i]
    THEN [match |-> FALSE, read |-> Max(seen, i)]
    ELSE CompareNoWildcard(buf, bytes, i + 1, Max(seen, i))

RECURSIVE Compare(_, _, _, _)
\* the inner loop from position i on: whether every concrete byte of the
\* pattern equals the buffer's, and the highest position of the buffer read
\* (seen is the highest position read before)
Compare(buf, bytes, i, seen) ==
  IF i > Len(bytes) THEN [match |-> TRUE, read |-> seen]
  ELSE LET sig == bytes[i]
       IN  IF sig # WILDCARD
             THEN IF At(buf, i) # sig
                    THEN [match |-> FALSE, read |-> Max(seen, i)]
                    ELSE Compare(buf, bytes, i + 1, Max(seen, i))
             ELSE Compare(buf, bytes, i + 1, seen)

RECURSIVE IndexOf(_, _, _)
\* key.indexOf(ch), searching from 1-based position i; -1 when absent,
\* otherwise the 0-based index
IndexOf(key, ch, i) ==
  IF i > Len(key) THEN -1
  ELSE IF key[i] = ch THEN i - 1
  ELSE IndexOf(key, ch, i + 1)

RECURSIVE LastIndexOf(_, _, _)
\* key.lastIndexOf(ch), searching down from 1-based position i
LastIndexOf(key, ch, i) ==
  IF i < 1 THEN -1
  ELSE IF key[i] = ch THEN i - 1
  ELSE LastIndexOf(key, ch, i - 1)

\* the tag cut at its last separator
TypeOfKeyAtLast(key) ==
  LET index == LastIndexOf(key, "_", Len(key))
  IN  IF index = -1 THEN key ELSE SubSeq(key, 1, index)

\* index === -1 ? key : key.slice(0, index)
TypeOfKey(key) ==
  LET index == IndexOf(key, "_", 1)
  IN  IF index = -1 THEN key ELSE SubSeq(key, 1, index)

\* no entry is skipped for its length
TooShortNever(buf, bytes) == FALSE

\* a pattern one position longer than the buffer is still compared
TooShortByOne(buf, bytes) == Len(buf) + 1 < Len(bytes)

\* buffer.length <= bytes.length
TooShortOrEqual(buf, bytes) == Len(buf) <= Len(bytes)

\* the entry is skipped without a comparison: buffer.length < bytes.length
TooShort(buf, bytes) == Len(buf) < Len(bytes)

\* detectImageType's null
NullType == <<"null">>

\* one entry of the outer loop, skipped for a buffer shorter than its pattern
SkipShort ==
  /\ dpc = "scan" /\ e < Len(registry)
  /\ TooShort(buffer, registry[e + 1].bytes)
  /\ e' = e + 1
  /\ UNCHANGED <<registry, buffer, result, matched, read, dpc>>
  /\ UNCHANGED <<serdeVars, optimizeVars, fetchVars, queueVars>>

\* one entry of the outer loop, compared and found not to match
Mismatch ==
  /\ dpc = "scan" /\ e < Len(registry)
  /\ ~TooShort(buffer, registry[e + 1].bytes)
  /\ LET c == Compare(buffer, registry[e + 1].bytes, 1, read)
     IN  /\ ~c.match
         /\ read' = c.read
  /\ e' = e + 1
  /\ UNCHANGED <<registry, buffer, result, matched, dpc>>
  /\ UNCHANGED <<serdeVars, optimizeVars, fetchVars, queueVars>>

\* one entry of the outer loop, compared and matched: the scan returns
Match ==
  /\ dpc = "scan" /\ e < Len(registry)
  /\ ~TooShort(buffer, registry[e + 1].bytes)
  /\ LET c == Compare(buffer, registry[e + 1].bytes, 1, read)
     IN  /\ c.match
         /\ read' = c.read
  /\ e' = e + 1
  /\ matched' = e + 1
  /\ result' = TypeOfKey(registry[e + 1].key)
  /\ dpc' = "done"
  /\ UNCHANGED <<registry, buffer>>
  /\ UNCHANGED <<serdeVars, optimizeVars, fetchVars, queueVars>>

\* the outer loop ran out of entries
ReturnNull ==
  /\ dpc = "scan" /\ e = Len(registry)
  /\ result' = NullType
  /\ dpc' = "done"
  /\ UNCHANGED <<registry, buffer, e, matched, read>>
  /\ UNCHANGED <<serdeVars, optimizeVars, fetchVars, queueVars>>

DetectNext ==
  \/ SkipShort
  \/ Mismatch
  \/ Match
  \/ ReturnNull

\* the codec when no result is in flight
SerdeIdle ==
  /\ value = [buffer |-> <<>>, contentType |-> Null, cacheControl |-> Null]
  /\ raw = <<>>
  /\ out = NoOutcome
  /\ pc = "idle"
  /\ tampered = FALSE

\* Small registries of every shape: three entries, the second and third
\* under alias tags, each with any pattern of up to MaxPatternLen positions.
MaxPatternLen == 2
MaxBufferLen == 2

SmallKeys ==
  << <<"j", "p", "e", "g">>,
     <<"j", "p", "e", "g", "_", "v">>,
     <<"s", "v", "g", "_", "a", "_", "b">> >>

SmallPatterns == SeqsUpTo({WILDCARD, 1}, MaxPatternLen)

SmallRegistries ==
  {[k \in 1..Len(SmallKeys) |-> [key |-> SmallKeys[k], bytes |-> ps[k]]] :
     ps \in [1..Len(SmallKeys) -> SmallPatterns]}

SmallBuffers == SeqsUpTo({1, 2}, MaxBufferLen)

\* Buffers for the registry of definitions.ts: every pattern with its
\* wildcard positions filled, the filler of a position being any byte some
\* pattern has at that position or the byte 0x42; and each such buffer
\* with its last byte dropped or one byte added.
FillerAt(i) ==
  {66} \cup {imageTypes[k].bytes[i] :
               k \in {j \in 1..Len(imageTypes) :
                        /\ i <= Len(imageTypes[j].bytes)
                        /\ imageTypes[j].bytes[i] # WILDCARD}}

RECURSIVE FilledFrom(_, _)
\* the ways to fill positions i.. of the pattern
FilledFrom(bytes, i) ==
  IF i > Len(bytes) THEN {<<>>}
  ELSE {<<x>> \o rest :
          x \in (IF bytes[i] = WILDCARD THEN FillerAt(i) ELSE {bytes[i]}),
          rest \in FilledFrom(bytes, i + 1)}

SignatureBuffers(bytes) == FilledFrom(bytes, 1)

AllSignatureBuffers ==
  UNION {SignatureBuffers(imageTypes[k].bytes) : k \in 1..Len(imageTypes)}

RegistryBuffers ==
  AllSignatureBuffers
  \cup {SubSeq(b, 1, Len(b) - 1) : b \in AllSignatureBuffers}
  \cup {Append(b, 66) : b \in AllSignatureBuffers}
  \cup {<<>>}

DetectInit ==
  /\ \/ registry \in SmallRegistries /\ buffer \in SmallBuffers
     \/ registry = imageTypes /\ buffer \in RegistryBuffers
  /\ e = 0
  /\ result = <<>>
  /\ matched = 0
  /\ read = 0
  /\ dpc = "scan"
  /\ SerdeIdle
  /\ OptimizeIdle
  /\ FetchIdle
  /\ QueueIdle

SpecDetect == DetectInit /\ [][DetectNext]_vars

----------------------------------------------------------------------------
(* optimize: the policy that decides what the codec is asked to do.        *)

\* the type tags the policy tells apart
avif == <<"a", "v", "i", "f">>
webp == <<"w", "e", "b", "p">>
png == <<"p", "n", "g">>
jpeg == <<"j", "p", "e", "g">>
svg == <<"s", "v", "g">>
gif == <<"g", "i", "f">>
bmp == <<"b", "m", "p">>

\* definitions.ts: the types that may hold several frames, and the types
\* that are never re-encoded
animatableTypes == {png, webp, gif}
bypassTypes == {svg, bmp}

\* definitions.ts, as far as the policy needs it: the registry with an
\* entry for each remaining type the policy names
policyTypes ==
  imageTypes \o
  << [key |-> avif,
      bytes |-> <<0, 0, 0, WILDCARD, 102, 116, 121, 112, 97, 118, 105, 102>>],
     [key |-> gif, bytes |-> <<71, 73, 70, 56>>],
     [key |-> bmp, bytes |-> <<66, 77>>] >>

\* new ImageError(code, message)
ImageError(code, message) ==
  [name |-> "ImageError", code |-> code, message |-> message]

\* a statusCode as ImageError holds it
Num(n) == <<"number", n>>

\* a call that threw
Rejected(error) == [kind |-> "threw", error |-> error]

\* a call that returned a buffer holding the image described
Resolved(buf, image) == [kind |-> "returned", buffer |-> buf, image |-> image]

InvalidInput == ImageError(Num(400), "Invalid input image")
UnsupportedAnimated ==
  ImageError(Num(400), "Unable to optimize and animated image")
SVGNotAllowed ==
  ImageError(Num(400), "Optimization of SVG images is not allowed")

\* every type passes for an image
NoTypeNever(t) == FALSE

\* !upstreamType
NoType(t) == t = NullType \/ t = <<>>

\* isAnimated(buffer) && animatableTypes.includes(upstreamType)
AnimatedGateEager(types, t, frames) ==
  [calls |-> 1, rejected |-> frames /\ t \in types]

\* animatableTypes.includes(upstreamType) && isAnimated(buffer): the number
\* of calls made to isAnimated, and whether the buffer is refused
AnimatedGate(types, t, frames) ==
  IF t \in types
  THEN [calls |-> 1, rejected |-> frames]
  ELSE [calls |-> 0, rejected |-> FALSE]

\* upstreamType === 'svg'
SvgRefusedAlways(t, allow) == t = svg

\* upstreamType === 'svg' && !allowSVG
SvgRefused(t, allow) == t = svg /\ ~allow

\* no type is returned as it came
BypassedNever(types, t) == FALSE

\* bypassTypes.includes(upstreamType)
Bypassed(types, t) == t \in types

\* resize({ width })
ResizeOptionsEnlarging(width) ==
  [width |-> width, withoutEnlargement |-> FALSE]

\* resize({ width, withoutEnlargement: true })
ResizeOptions(width) == [width |-> width, withoutEnlargement |-> TRUE]

\* the avif quality without its floor
FormatOptionsNoFloor(t, quality) ==
  IF t = avif
  THEN [encoder |-> "avif", quality |-> quality - 20, effort |-> 3]
  ELSE IF t = webp THEN [encoder |-> "webp", quality |-> quality]
  ELSE IF t = png THEN [encoder |-> "png", quality |-> quality]
  ELSE IF t = jpeg
  THEN [encoder |-> "jpeg", quality |-> quality, mozjpeg |-> TRUE]
  ELSE [encoder |-> "input"]

\* the quality handed to the png encoder as its effort
FormatOptionsPngEffort(t, quality) ==
  IF t = avif
  THEN [encoder |-> "avif", quality |-> Max(quality - 20, 1), effort |-> 3]
  ELSE IF t = webp THEN [encoder |-> "webp", quality |-> quality]
  ELSE IF t = png THEN [encoder |-> "png", effort |-> quality]
  ELSE IF t = jpeg
  THEN [encoder |-> "jpeg", quality |-> quality, mozjpeg |-> TRUE]
  ELSE [encoder |-> "input"]

\* the encoder chosen for the type and its options; for any other type no
\* encoder is chosen and the codec writes the format it read
FormatOptions(t, quality) ==
  IF t = avif
  THEN [encoder |-> "avif", quality |-> Max(quality - 20, 1), effort |-> 3]
  ELSE IF t = webp THEN [encoder |-> "webp", quality |-> quality]
  ELSE IF t = png THEN [encoder |-> "png", quality |-> quality]
  ELSE IF t = jpeg
  THEN [encoder |-> "jpeg", quality |-> quality, mozjpeg |-> TRUE]
  ELSE [encoder |-> "input"]

\* sharp(buffer, { limitInputPixels }).rotate().resize(...).<format>(...)
Pipeline(buf, width, t, quality) ==
  [input |-> buf,
   limitInputPixels |-> "maxImageSize",
   rotate |-> TRUE,
   resize |-> ResizeOptions(width),
   format |-> FormatOptions(t, quality)]

\* the width the codec's resize gives an image of width w
ResizedWidth(options, w) ==
  IF options.withoutEnlargement /\ w <= options.width THEN w
  ELSE options.width

\* the height that keeps the proportions, rounded, at least one pixel
ResizedHeight(options, w, h) ==
  Max((2 * h * ResizedWidth(options, w) + w) \div (2 * w), 1)

\* the type an encoder writes; without an encoder, the type that was read
TypeWritten(encoder, t) ==
  IF encoder = "avif" THEN avif
  ELSE IF encoder = "webp" THEN webp
  ELSE IF encoder = "png" THEN png
  ELSE IF encoder = "jpeg" THEN jpeg
  ELSE t

\* the image the codec's toBuffer() writes for a pipeline, src being the
\* image in the input buffer as rotate() has set it upright
Transformed(call, t, src) ==
  [type |-> TypeWritten(call.format.encoder, t),
   width |-> ResizedWidth(call.resize, src.width),
   height |-> ResizedHeight(call.resize, src.width, src.height)]

\* the buffers the codec may write, and the error it may raise
EncodedBuffers == {<<201>>, <<201, 202>>}
CodecError == [name |-> "Error", message |-> "Input buffer is corrupt"]

\* the detection optimize awaits has ended
Detected == opc = "detect" /\ dpc = "done"

\* what the animated gate does with this call
Gate == AnimatedGate(definitions.animatableTypes, result, source.animated)

\* throw new ImageError(400, 'Invalid input image')
RejectInvalid ==
  /\ Detected
  /\ NoType(result)
  /\ outcome' = Rejected(InvalidInput)
  /\ opc' = "done"
  /\ UNCHANGED <<definitions, args, source, isAnimatedCalls, sharpCalls,
                 sharpAnswers>>
  /\ UNCHANGED <<serdeVars, detectVars, fetchVars, queueVars>>

\* throw new ImageError(400, 'Unable to optimize and animated image')
RejectAnimated ==
  /\ Detected
  /\ ~NoType(result)
  /\ Gate.rejected
  /\ isAnimatedCalls' = isAnimatedCalls + Gate.calls
  /\ outcome' = Rejected(UnsupportedAnimated)
  /\ opc' = "done"
  /\ UNCHANGED <<definitions, args, source, sharpCalls, sharpAnswers>>
  /\ UNCHANGED <<serdeVars, detectVars, fetchVars, queueVars>>

\* throw new ImageError(400, 'Optimization of SVG images is not allowed')
RejectSVG ==
  /\ Detected
  /\ ~NoType(result)
  /\ ~Gate.rejected
  /\ SvgRefused(result, args.allowSVG)
  /\ isAnimatedCalls' = isAnimatedCalls + Gate.calls
  /\ outcome' = Rejected(SVGNotAllowed)
  /\ opc' = "done"
  /\ UNCHANGED <<definitions, args, source, sharpCalls, sharpAnswers>>
  /\ UNCHANGED <<serdeVars, detectVars, fetchVars, queueVars>>

\* the bypass test made ahead of the animated gate and of the SVG allowance
BypassFirst ==
  /\ Detected
  /\ ~NoType(result)
  /\ Bypassed(definitions.bypassTypes, result)
  /\ outcome' = Resolved(buffer, [type |-> result, width |-> source.width,
                                  height |-> source.height])
  /\ opc' = "done"
  /\ UNCHANGED <<definitions, args, source, isAnimatedCalls, sharpCalls,
                 sharpAnswers>>
  /\ UNCHANGED <<serdeVars, detectVars, fetchVars, queueVars>>

\* return buffer
Bypass ==
  /\ Detected
  /\ ~NoType(result)
  /\ ~Gate.rejected
  /\ ~SvgRefused(result, args.allowSVG)
  /\ Bypassed(definitions.bypassTypes, result)
  /\ isAnimatedCalls' = isAnimatedCalls + Gate.calls
  /\ outcome' = Resolved(buffer, [type |-> result, width |-> source.width,
                                  height |-> source.height])
  /\ opc' = "done"
  /\ UNCHANGED <<definitions, args, source, sharpCalls, sharpAnswers>>
  /\ UNCHANGED <<serdeVars, detectVars, fetchVars, queueVars>>

\* the pipeline is built and transformer.toBuffer() is awaited
Transform ==
  /\ Detected
  /\ ~NoType(result)
  /\ ~Gate.rejected
  /\ ~SvgRefused(result, args.allowSVG)
  /\ ~Bypassed(definitions.bypassTypes, result)
  /\ isAnimatedCalls' = isAnimatedCalls + Gate.calls
  /\ sharpCalls' =
       Append(sharpCalls, Pipeline(buffer, args.width, result, args.quality))
  /\ opc' = "codec"
  /\ UNCHANGED <<definitions, args, source, sharpAnswers, outcome>>
  /\ UNCHANGED <<serdeVars, detectVars, fetchVars, queueVars>>

\* toBuffer() resolves: optimize returns what the codec wrote
CodecReturns ==
  /\ opc = "codec"
  /\ \E encoded \in EncodedBuffers :
       outcome' = Resolved(encoded,
                           Transformed(sharpCalls[Len(sharpCalls)], result,
                                       source))
  /\ sharpAnswers' = Append(sharpAnswers, "resolved")
  /\ opc' = "done"
  /\ UNCHANGED <<definitions, args, source, isAnimatedCalls, sharpCalls>>
  /\ UNCHANGED <<serdeVars, detectVars, fetchVars, queueVars>>

\* toBuffer() rejects and the pipeline is run once more
CodecFailsRetried ==
  /\ opc = "codec"
  /\ sharpAnswers' = Append(sharpAnswers, "rejected")
  /\ IF Len(sharpCalls) < 2
     THEN /\ sharpCalls' = Append(sharpCalls, sharpCalls[Len(sharpCalls)])
          /\ UNCHANGED <<outcome, opc>>
     ELSE /\ outcome' = Rejected(CodecError)
          /\ opc' = "done"
          /\ UNCHANGED sharpCalls
  /\ UNCHANGED <<definitions, args, source, isAnimatedCalls>>
  /\ UNCHANGED <<serdeVars, detectVars, fetchVars, queueVars>>

\* toBuffer() rejects: the rejection is optimize's
CodecFails ==
  /\ opc = "codec"
  /\ sharpAnswers' = Append(sharpAnswers, "rejected")
  /\ outcome' = Rejected(CodecError)
  /\ opc' = "done"
  /\ UNCHANGED <<definitions, args, source, isAnimatedCalls, sharpCalls>>
  /\ UNCHANGED <<serdeVars, detectVars, fetchVars, queueVars>>

OptimizeNext ==
  \/ DetectNext
  \/ RejectInvalid
  \/ RejectAnimated
  \/ RejectSVG
  \/ Bypass
  \/ Transform
  \/ CodecReturns
  \/ CodecFails

\* The inputs of optimize: for each entry of the registry the buffer that
\* is its signature, wildcard positions filled with 0x42, the empty buffer
\* and a buffer that is no image; widths of the request and of the source
\* up to MaxWidth; qualities on both sides of the avif floor.
MaxWidth == 2

Filled(bytes) ==
  [i \in 1..Len(bytes) |-> IF bytes[i] = WILDCARD THEN 66 ELSE bytes[i]]

OptimizeBuffers ==
  {Filled(policyTypes[k].bytes) : k \in 1..Len(policyTypes)}
  \cup {<<>>, <<1, 2, 3>>}

Qualities == {0, 1, 20, 21, 22, 80}

\* definitions.ts as it is, and other ways the two sets could be drawn
Definitions ==
  {[animatableTypes |-> animatableTypes, bypassTypes |-> bypassTypes],
   [animatableTypes |-> {}, bypassTypes |-> {}],
   [animatableTypes |-> {svg, bmp, jpeg},
    bypassTypes |-> {svg, bmp, png}],
   [animatableTypes |-> {avif}, bypassTypes |-> {svg, webp, gif, jpeg}]}

OptimizeInit ==
  /\ registry = policyTypes
  /\ buffer \in OptimizeBuffers
  /\ e = 0
  /\ result = <<>>
  /\ matched = 0
  /\ read = 0
  /\ dpc = "scan"
  /\ definitions \in Definitions
  /\ args \in [width : 1..MaxWidth, quality : Qualities, allowSVG : BOOLEAN]
  /\ source \in [animated : BOOLEAN, width : 1..MaxWidth,
                 height : 1..MaxWidth]
  /\ isAnimatedCalls = 0
  /\ sharpCalls = <<>>
  /\ sharpAnswers = <<>>
  /\ outcome = Pending
  /\ opc = "detect"
  /\ SerdeIdle
  /\ FetchIdle
  /\ QueueIdle

SpecOptimize == OptimizeInit /\ [][OptimizeNext]_vars

----------------------------------------------------------------------------
(* fetchAndOptimize: the upstream response, then optimize on its body.     *)

\* a status text as ImageError holds it
Str(s) == <<"string", s>>

\* new ImageError(code, message, { response })
ImageErrorWith(code, message, text) ==
  [name |-> "ImageError", code |-> code, message |-> message,
   response |-> text]

\* response.ok
Ok(status) == status >= 200 /\ status <= 299

\* response.statusText for a status, as HTTP/1.1 servers send it
ReasonPhrase(status) ==
  IF status = 200 THEN "OK"
  ELSE IF status = 204 THEN "No Content"
  ELSE IF status = 304 THEN "Not Modified"
  ELSE IF status = 404 THEN "Not Found"
  ELSE "Internal Server Error"

\* response.text(): the body decoded as UTF-8, a leading byte order mark
\* dropped
Text(body) ==
  LET units == Utf8Decode(body, 1, Len(body))
  IN  IF units # <<>> /\ Head(units) = 65279 THEN Tail(units) ELSE units

\* the fetch itself rejected
FetchFailed == [name |-> "TypeError", message |-> "fetch failed"]

\* the Image fetchAndOptimize resolves to
Fulfilled(image) == [kind |-> "returned", value |-> image]

\* await fetch(url) rejects
FetchRejects ==
  /\ fpc = "fetch"
  /\ fetched' = Rejected(FetchFailed)
  /\ fpc' = "done"
  /\ UNCHANGED response
  /\ UNCHANGED <<serdeVars, detectVars, optimizeVars, queueVars>>

\* if (!response.ok) throw new ImageError(response.statusText, ...)
ThrowNotOk ==
  /\ fpc = "fetch"
  /\ ~Ok(response.status)
  /\ fetched' =
       Rejected(ImageErrorWith(
         Str(response.statusText),
         "Unable to fetch the image. [HTTP " \o response.statusText \o "]",
         Text(response.body)))
  /\ fpc' = "done"
  /\ UNCHANGED response
  /\ UNCHANGED <<serdeVars, detectVars, optimizeVars, queueVars>>

\* optimize(Buffer.from(await response.arrayBuffer()), width, quality,
\* allowSVG) is called
CallOptimize ==
  /\ fpc = "fetch"
  /\ Ok(response.status)
  /\ buffer' = response.body
  /\ dpc' = "scan"
  /\ opc' = "detect"
  /\ fpc' = "optimize"
  /\ UNCHANGED <<registry, e, result, matched, read>>
  /\ UNCHANGED <<definitions, args, source, isAnimatedCalls, sharpCalls,
                 sharpAnswers, outcome>>
  /\ UNCHANGED <<response, fetched>>
  /\ UNCHANGED <<serdeVars, queueVars>>

\* a missing content type made up from the type that was detected
ReturnImageDefaulted ==
  /\ fpc = "optimize"
  /\ opc = "done"
  /\ outcome.kind = "returned"
  /\ fetched' = Fulfilled([buffer |-> outcome.buffer,
                           contentType |->
                             IF response.contentType = Null THEN <<105>>
                             ELSE response.contentType,
                           cacheControl |-> response.cacheControl])
  /\ fpc' = "done"
  /\ UNCHANGED response
  /\ UNCHANGED <<serdeVars, detectVars, optimizeVars, queueVars>>

\* optimize returned: the result is built from its buffer and the headers
ReturnImage ==
  /\ fpc = "optimize"
  /\ opc = "done"
  /\ outcome.kind = "returned"
  /\ fetched' = Fulfilled([buffer |-> outcome.buffer,
                           contentType |-> response.contentType,
                           cacheControl |-> response.cacheControl])
  /\ fpc' = "done"
  /\ UNCHANGED response
  /\ UNCHANGED <<serdeVars, detectVars, optimizeVars, queueVars>>

\* optimize threw: the rejection is fetchAndOptimize's
ThrowOptimize ==
  /\ fpc = "optimize"
  /\ opc = "done"
  /\ outcome.kind = "threw"
  /\ fetched' = outcome
  /\ fpc' = "done"
  /\ UNCHANGED response
  /\ UNCHANGED <<serdeVars, detectVars, optimizeVars, queueVars>>

FetchNext ==
  \/ FetchRejects
  \/ ThrowNotOk
  \/ CallOptimize
  \/ OptimizeNext
  \/ ReturnImage
  \/ ThrowOptimize

\* The upstream responses: statuses inside and outside 2xx, the reason
\* phrase of each or none, as over HTTP/2; bodies that are images of
\* several types, empty, or the text "missing"; each header there or not.
Statuses == {200, 204, 304, 404, 500}

Bodies ==
  {Filled(policyTypes[k].bytes) : k \in 1..Len(policyTypes)}
  \cup {<<>>, <<109, 105, 115, 115, 105, 110, 103>>}

HeaderValues == {Null, <<>>, <<65>>, <<233>>}

Responses ==
  {r \in [status : Statuses, statusText : {ReasonPhrase(s) : s \in Statuses}
                                          \cup {""},
          body : Bodies, contentType : HeaderValues,
          cacheControl : HeaderValues] :
     r.statusText \in {ReasonPhrase(r.status), ""}}

FetchInit ==
  /\ response \in Responses
  /\ fetched = Pending
  /\ fpc = "fetch"
  /\ registry = policyTypes
  /\ buffer = <<>>
  /\ e = 0
  /\ result = <<>>
  /\ matched = 0
  /\ read = 0
  /\ dpc = "idle"
  /\ definitions = [animatableTypes |-> animatableTypes,
                    bypassTypes |-> bypassTypes]
  /\ args \in [width : {MaxWidth}, quality : {1, 80}, allowSVG : BOOLEAN]
  /\ source \in [animated : BOOLEAN, width : {1}, height : {1}]
  /\ isAnimatedCalls = 0
  /\ sharpCalls = <<>>
  /\ sharpAnswers = <<>>
  /\ outcome = Pending
  /\ opc = "idle"
  /\ SerdeIdle
  /\ QueueIdle

SpecFetch == FetchInit /\ [][FetchNext]_vars

----------------------------------------------------------------------------
(* The Queue class: start, stop and the enqueueing of jobs.                *)

\* no error
NoError == [name |-> "none", code |-> "undefined", message |-> <<>>]

\* import('@platformatic/job-queue') resolved, or rejected with an error
Loaded == [loaded |-> TRUE, error |-> NoError]
Failed(error) == [loaded |-> FALSE, error |-> error]

\* The errors a failed import may give, their messages in parts: the
\* package is missing; a package it needs is missing; the package is named
\* but the code is another; the error of the test.
MissingJobQueue ==
  [name |-> "Error", code |-> "ERR_MODULE_NOT_FOUND",
   message |-> <<"Cannot find package ", "'@platformatic/job-queue'",
                 " imported from /app/index.js">>]
MissingOther ==
  [name |-> "Error", code |-> "ERR_MODULE_NOT_FOUND",
   message |-> <<"Cannot find package ", "'iovalkey'",
                 " imported from /app/index.js">>]
NotExported ==
  [name |-> "Error", code |-> "ERR_PACKAGE_PATH_NOT_EXPORTED",
   message |-> <<"No exports main defined in ", "'@platformatic/job-queue'">>]
Boom == [name |-> "Error", code |-> "undefined", message |-> <<"boom">>]

LoadErrors == {MissingJobQueue, MissingOther, NotExported, Boom}

\* message.includes(part)
Includes(message, part) == \E i \in 1..Len(message) : message[i] = part

\* error.code === 'ERR_MODULE_NOT_FOUND'
IsMissingAnyModule(error) == error.code = "ERR_MODULE_NOT_FOUND"

\* error.code === 'ERR_MODULE_NOT_FOUND' &&
\* error.message.includes("'@platformatic/job-queue'")
IsMissingJobQueue(error) ==
  /\ error.code = "ERR_MODULE_NOT_FOUND"
  /\ Includes(error.message, "'@platformatic/job-queue'")

\* new InternalServerError(message, { cause })
InternalServerError(message, cause) ==
  [name |-> "InternalServerError", statusCode |-> 500, message |-> message,
   cause |-> cause]

\* what start throws when the import rejected
StartError(error) ==
  IF IsMissingJobQueue(error)
  THEN InternalServerError(
         "The Queue requires @platformatic/job-queue to be installed", error)
  ELSE error

\* this.#queue!.enqueueAndWait on null
NullQueueError ==
  [name |-> "TypeError", code |-> "undefined",
   message |-> <<"Cannot read properties of null">>]

\* start never returns early
StartedAlreadyNever(flag) == FALSE

\* if (this.#started) return
StartedAlready(flag) == flag

\* if (!this.#queue || !this.#started) return
NothingToStop(q, flag) == q = 0 \/ ~flag

\* the job is enqueued without a look at the Queue
NeedsStartNever(q, flag) == FALSE

\* if (!this.#queue || !this.#started) await this.start()
NeedsStart(q, flag) == q = 0 \/ ~flag

\* the call is between two of its awaits
InFlight(c) == calls[c].pc \in {"loading", "starting", "resuming", "stopping"}

\* a call as it is made: ready tells whether it found the Queue started
NewCall(op, at, q) ==
  [op |-> op, pc |-> at, q |-> q, ready |-> queue # 0 /\ started,
   error |-> NoError]

\* the enqueueAndWait call of call c, on what #queue refers to
Attempt(c) ==
  [call |-> c, target |-> queue,
   state |-> IF queue = 0 THEN "null" ELSE jobQueues[queue]]

MaxCalls == 3

Overlaps == \E c \in 1..Len(calls) : InFlight(c)

\* start() is called: it returns at once or awaits the import
CallStart ==
  /\ Len(calls) < MaxCalls
  /\ calls' = Append(calls,
                     NewCall("start",
                             IF StartedAlready(started) THEN "returned"
                             ELSE "loading", 0))
  /\ overlapped' = (overlapped \/ Overlaps)
  /\ UNCHANGED <<queue, started, jobQueues, jobQueueModule, enqueued, queued>>
  /\ UNCHANGED <<serdeVars, detectVars, optimizeVars, fetchVars>>

\* stop() is called: it returns at once or awaits this.#queue.stop()
CallStop ==
  /\ Len(calls) < MaxCalls
  /\ IF NothingToStop(queue, started)
     THEN /\ calls' = Append(calls, NewCall("stop", "returned", 0))
          /\ UNCHANGED jobQueues
     ELSE /\ calls' = Append(calls, NewCall("stop", "stopping", queue))
          /\ jobQueues' = [jobQueues EXCEPT ![queue] = "stopping"]
  /\ overlapped' = (overlapped \/ Overlaps)
  /\ UNCHANGED <<queue, started, jobQueueModule, enqueued, queued>>
  /\ UNCHANGED <<serdeVars, detectVars, optimizeVars, fetchVars>>

\* fetchAndOptimize() is called: #enqueueAndWait awaits start(), which
\* returns at once or awaits the import, or it enqueues the job
CallFetchAndOptimize ==
  /\ Len(calls) < MaxCalls
  /\ IF NeedsStart(queue, started)
     THEN /\ calls' = Append(calls,
                             NewCall("fetchAndOptimize",
                                     IF StartedAlready(started)
                                     THEN "resuming" ELSE "loading", 0))
          /\ UNCHANGED enqueued
     ELSE /\ enqueued' = Append(enqueued, Attempt(Len(calls) + 1))
          /\ calls' =
               Append(calls,
                      IF queue = 0
                      THEN [NewCall("fetchAndOptimize", "threw", 0)
                              EXCEPT !.error = NullQueueError]
                      ELSE NewCall("fetchAndOptimize", "enqueued", 0))
  /\ overlapped' = (overlapped \/ Overlaps)
  /\ UNCHANGED <<queue, started, jobQueues, jobQueueModule, queued>>
  /\ UNCHANGED <<serdeVars, detectVars, optimizeVars, fetchVars>>

\* the import resolved: the job queue is constructed, given its handler,
\* and queue.start() is awaited
LoadResolves ==
  /\ \E c \in 1..Len(calls) :
       /\ calls[c].pc = "loading"
       /\ jobQueueModule.loaded
       /\ jobQueues' = Append(jobQueues, "starting")
       /\ calls' = [calls EXCEPT ![c].pc = "starting",
                                 ![c].q = Len(jobQueues) + 1]
  /\ UNCHANGED <<queue, started, jobQueueModule, enqueued, overlapped, queued>>
  /\ UNCHANGED <<serdeVars, detectVars, optimizeVars, fetchVars>>

\* the import rejected: start throws, and so does a call that awaited it
LoadRejects ==
  /\ \E c \in 1..Len(calls) :
       /\ calls[c].pc = "loading"
       /\ ~jobQueueModule.loaded
       /\ calls' = [calls EXCEPT ![c].pc = "threw",
                                 ![c].error = StartError(jobQueueModule.error)]
  /\ UNCHANGED <<queue, started, jobQueues, jobQueueModule, enqueued,
                 overlapped, queued>>
  /\ UNCHANGED <<serdeVars, detectVars, optimizeVars, fetchVars>>

\* queue.start() resolved: this.#queue = queue; this.#started = true
StartResolves ==
  /\ \E c \in 1..Len(calls) :
       /\ calls[c].pc = "starting"
       /\ jobQueues' = [jobQueues EXCEPT ![calls[c].q] = "started"]
       /\ queue' = calls[c].q
       /\ started' = TRUE
       /\ calls' = [calls EXCEPT ![c].pc = IF calls[c].op = "start"
                                           THEN "returned" ELSE "resuming"]
  /\ UNCHANGED <<jobQueueModule, enqueued, overlapped, queued>>
  /\ UNCHANGED <<serdeVars, detectVars, optimizeVars, fetchVars>>

\* the awaited start() returned: this.#queue!.enqueueAndWait(...)
Resume ==
  /\ \E c \in 1..Len(calls) :
       /\ calls[c].pc = "resuming"
       /\ enqueued' = Append(enqueued, Attempt(c))
       /\ calls' = IF queue = 0
                   THEN [calls EXCEPT ![c].pc = "threw",
                                      ![c].error = NullQueueError]
                   ELSE [calls EXCEPT ![c].pc = "enqueued"]
  /\ UNCHANGED <<queue, started, jobQueues, jobQueueModule, overlapped, queued>>
  /\ UNCHANGED <<serdeVars, detectVars, optimizeVars, fetchVars>>

\* this.#queue.stop() resolved: this.#queue = null; this.#started = false
StopResolves ==
  /\ \E c \in 1..Len(calls) :
       /\ calls[c].pc = "stopping"
       /\ jobQueues' = [jobQueues EXCEPT ![calls[c].q] = "stopped"]
       /\ queue' = 0
       /\ started' = FALSE
       /\ calls' = [calls EXCEPT ![c].pc = "returned"]
  /\ UNCHANGED <<jobQueueModule, enqueued, overlapped, queued>>
  /\ UNCHANGED <<serdeVars, detectVars, optimizeVars, fetchVars>>

QueueNext ==
  \/ CallStart
  \/ CallStop
  \/ CallFetchAndOptimize
  \/ LoadResolves
  \/ LoadRejects
  \/ StartResolves
  \/ Resume
  \/ StopResolves

\* new Queue(): nothing started, the import resolving or rejecting
QueueInit ==
  /\ queue = 0
  /\ started = FALSE
  /\ jobQueues = <<>>
  /\ jobQueueModule \in {Loaded} \cup {Failed(error) : error \in LoadErrors}
  /\ calls = <<>>
  /\ enqueued = <<>>
  /\ overlapped = FALSE
  /\ queued = Pending
  /\ SerdeIdle
  /\ DetectIdle
  /\ OptimizeIdle
  /\ FetchIdle

SpecQueue == QueueInit /\ [][QueueNext]_vars

----------------------------------------------------------------------------
(* A job of the Queue: the worker runs fetchAndOptimize, the job queue     *)
(* stores the serialized result, and Queue.fetchAndOptimize returns what   *)
(* is read back.                                                           *)

\* result.contentType ?? null
NullishCoalesce(v) == IF NotNullish(v) THEN v ELSE Null

\* the job queue's error for a job that failed
JobFailed == [name |-> "JobFailedError"]

\* #execute returned: its result goes to the result codec
JobReturns ==
  /\ fpc = "done"
  /\ fetched.kind = "returned"
  /\ pc = "idle"
  /\ value' = fetched.value
  /\ pc' = "input"
  /\ UNCHANGED <<raw, out, tampered>>
  /\ UNCHANGED <<detectVars, optimizeVars, fetchVars, queueVars>>

\* #execute threw: enqueueAndWait rejects
JobFails ==
  /\ fpc = "done"
  /\ fetched.kind = "threw"
  /\ queued = Pending
  /\ queued' = Rejected(JobFailed)
  /\ UNCHANGED <<queue, started, jobQueues, jobQueueModule, calls, enqueued,
                 overlapped>>
  /\ UNCHANGED <<serdeVars, detectVars, optimizeVars, fetchVars>>

\* the metadata dropped on the way back
QueueReturnsBufferOnly ==
  /\ pc = "done"
  /\ queued = Pending
  /\ queued' =
       IF out.error # "" THEN Rejected(JobFailed)
       ELSE Fulfilled([buffer |-> out.buffer,
                       contentType |-> Null,
                       cacheControl |-> Null])
  /\ UNCHANGED <<queue, started, jobQueues, jobQueueModule, calls, enqueued,
                 overlapped>>
  /\ UNCHANGED <<serdeVars, detectVars, optimizeVars, fetchVars>>

\* enqueueAndWait resolved with the deserialized result:
\* return { buffer, contentType ?? null, cacheControl ?? null }
QueueReturns ==
  /\ pc = "done"
  /\ queued = Pending
  /\ queued' =
       IF out.error # "" THEN Rejected(JobFailed)
       ELSE Fulfilled([buffer |-> out.buffer,
                       contentType |-> NullishCoalesce(out.contentType),
                       cacheControl |-> NullishCoalesce(out.cacheControl)])
  /\ UNCHANGED <<queue, started, jobQueues, jobQueueModule, calls, enqueued,
                 overlapped>>
  /\ UNCHANGED <<serdeVars, detectVars, optimizeVars, fetchVars>>

JobNext ==
  \/ FetchNext
  \/ JobReturns
  \/ JobFails
  \/ Serialize
  \/ Deserialize
  \/ QueueReturns

SpecJob == FetchInit /\ [][JobNext]_vars

----------------------------------------------------------------------------
(* The layout of a blob, read off the blob itself.  These definitions      *)
(* state the claims; they do not model code.                               *)

\* the eight bytes at 0-based cursor c, for a cursor with c + 8 <= Len(raw)
Declared(c) == SubSeq(raw, c + 1, c + UINT64_SIZE)

\* the value of a declared length known to be at most Len(raw)
Small(d) == BigLow(SubSeq(d, 5, 8), 0)

\* at cursor c: a whole prefix is there; it declares a safe integer; the
\* declared bytes are there
Fits(c) == Len(raw) - c >= UINT64_SIZE
Safe(c) == ~BigGT(Declared(c), MAX_SAFE_INTEGER)
InRange(c) == ~BigGT(Declared(c), BigInt(Len(raw) - c - UINT64_SIZE))
FieldOk(c) == Fits(c) /\ Safe(c) /\ InRange(c)

\* the cursor after the field at cursor c
After(c) == c + UINT64_SIZE + Small(Declared(c))

\* the cursors at which the three prefixes are due, and whether the fields
\* before them passed their checks
Cursor2 == After(0)
Cursor3 == After(Cursor2)
Due2 == FieldOk(0)
Due3 == Due2 /\ FieldOk(Cursor2)
AllFieldsOk == Due3 /\ FieldOk(Cursor3)

Threw(what) == out.error = ErrPrefix \o what

\* no unpaired surrogate in the string s
RECURSIVE WellFormed(_)
WellFormed(s) ==
  IF s = <<>> THEN TRUE
  ELSE IF IsHighSurrogate(Head(s))
    THEN Len(s) >= 2 /\ IsLowSurrogate(s[2]) /\ WellFormed(Tail(Tail(s)))
  ELSE ~IsLowSurrogate(Head(s)) /\ WellFormed(Tail(s))

\* absent, or a non-empty well-formed string
Storable(v) == ~NotNullish(v) \/ (v # <<>> /\ WellFormed(v))

\* the decoded field a stands for the encoded field b: both absent, or the
\* same string
SameField(a, b) == IF NotNullish(b) THEN a = b ELSE ~NotNullish(a)

RoundTripped ==
  /\ out.error = ""
  /\ out.buffer = value.buffer
  /\ SameField(out.contentType, value.contentType)
  /\ SameField(out.cacheControl, value.cacheControl)

\* C1 as stated: deserialize(serialize(x)) equals x for every result x,
\* each string absent or present.  Fails for a present empty string, which
\* comes back absent, and for a string with an unpaired surrogate.
C1_RoundTripEveryResult ==
  pc = "done" /\ ~tampered => RoundTripped

\* C1 amended: deserialize(serialize(x)) equals x (same buffer bytes, same
\* contentType, same cacheControl) for every result x whose two strings are
\* each absent or a non-empty string without unpaired surrogates; the
\* buffer may be empty.
C1_RoundTrip ==
  pc = "done" /\ ~tampered
    /\ Storable(value.contentType) /\ Storable(value.cacheControl)
  => RoundTripped

C1_Witness ==
  /\ pc = "done" /\ ~tampered
  /\ value.buffer = <<>>
  /\ value.contentType = <<55357, 56832>>
  /\ value.cacheControl = Null
  /\ RoundTripped

\* C2: for each field in order, fewer than 8 bytes between the cursor and
\* the end of the input when the field's length prefix is due makes
\* deserialize fail with "missing <field> length"; every input shorter than
\* 8 bytes fails with "missing image buffer length".
C2_PresenceCheck ==
  pc = "done" =>
    /\ ~Fits(0) => Threw("missing image buffer length")
    /\ Due2 /\ ~Fits(Cursor2) => Threw("missing content type length")
    /\ Due3 /\ ~Fits(Cursor3) => Threw("missing cache control length")

C2_Witness ==
  /\ pc = "done"
  /\ Due3 /\ ~Fits(Cursor3) /\ Len(raw) > Cursor3
  /\ Threw("missing cache control length")

\* C3: for each field, a length prefix declaring more than 2^53 - 1 makes
\* deserialize fail with "<field> length is too large", and not with the
\* range error that the same length would also deserve.
C3_MagnitudeCheck ==
  pc = "done" =>
    /\ Fits(0) /\ ~Safe(0)
         => Threw("image buffer length is too large")
    /\ Due2 /\ Fits(Cursor2) /\ ~Safe(Cursor2)
         => Threw("content type length is too large")
    /\ Due3 /\ Fits(Cursor3) /\ ~Safe(Cursor3)
         => Threw("cache control length is too large")

C3_Witness ==
  /\ pc = "done"
  /\ Due3 /\ Fits(Cursor3)
  /\ Declared(Cursor3) = <<0, 32, 0, 0, 0, 0, 0, 0>>
  /\ Threw("cache control length is too large")

C5_TrailingBytes ==
  pc = "done" =>
    /\ AllFieldsOk /\ After(Cursor3) # Len(raw)
         => out = Thrown(ErrPrefix \o "trailing bytes found", out.touched)
    /\ out.error = "" => AllFieldsOk /\ After(Cursor3) = Len(raw)

C5_Witness ==
  /\ pc = "done"
  /\ AllFieldsOk /\ After(Cursor3) = Len(raw) - 1
  /\ Threw("trailing bytes found")

\* C6: serialize writes a length prefix of 0 and no content bytes for an
\* absent contentType or cacheControl, and deserialize returns null, never
\* the empty string, for a string field whose length prefix is 0.
C6_AbsenceEncoding ==
  /\ pc = "wire" /\ ~tampered =>
       /\ ~NotNullish(value.contentType) =>
            /\ Declared(Cursor2) = <<0, 0, 0, 0, 0, 0, 0, 0>>
            /\ Cursor3 = Cursor2 + UINT64_SIZE
       /\ ~NotNullish(value.cacheControl) =>
            /\ Declared(Cursor3) = <<0, 0, 0, 0, 0, 0, 0, 0>>
            /\ Len(raw) = Cursor3 + UINT64_SIZE
  /\ pc = "done" /\ out.error = "" =>
       /\ Declared(Cursor2) = <<0, 0, 0, 0, 0, 0, 0, 0>>
            => out.contentType = Null
       /\ Declared(Cursor3) = <<0, 0, 0, 0, 0, 0, 0, 0>>
            => out.cacheControl = Null

C6_Witness ==
  /\ pc = "done" /\ ~tampered /\ out.error = ""
  /\ value.contentType = Undefined /\ out.contentType = Null
  /\ value.cacheControl = <<>> /\ out.cacheControl = Null

\* the UTF-8 bytes of a string over CodeUnits, written out by hand
RECURSIVE Utf8Of(_)
Utf8Of(s) ==
  IF s = <<>> THEN <<>>
  ELSE IF Head(s) = 65 THEN <<65>> \o Utf8Of(Tail(s))
  ELSE IF Head(s) = 8364 THEN <<226, 130, 172>> \o Utf8Of(Tail(s))
  ELSE IF Head(s) = 55357 /\ Len(s) >= 2 /\ s[2] = 56832
    THEN <<240, 159, 152, 128>> \o Utf8Of(Tail(Tail(s)))
  ELSE <<239, 191, 189>> \o Utf8Of(Tail(s))

FieldBytes(v) == IF NotNullish(v) THEN Utf8Of(v) ELSE <<>>

\* the 8-byte big-endian form of a length below 65536
BigEndian(n) == <<0, 0, 0, 0, 0, 0, n \div 256, n % 256>>

\* C7: the output of serialize is, with no padding, the 8-byte big-endian
\* N, the N image bytes, the 8-byte big-endian M, the M contentType UTF-8
\* bytes, the 8-byte big-endian K and the K cacheControl UTF-8 bytes, 24 +
\* N + M + K bytes in all, whatever the allocated memory held.
C7_WireLayout ==
  pc = "wire" /\ ~tampered =>
    LET image == value.buffer
        ct == FieldBytes(value.contentType)
        cc == FieldBytes(value.cacheControl)
    IN  /\ Len(raw) = 24 + Len(image) + Len(ct) + Len(cc)
        /\ raw = BigEndian(Len(image)) \o image \o BigEndian(Len(ct)) \o ct
                 \o BigEndian(Len(cc)) \o cc

C7_Witness ==
  /\ pc = "wire" /\ ~tampered
  /\ value.buffer = <<200>>
  /\ value.contentType = <<8364>>
  /\ value.cacheControl = <<65>>
  /\ Len(raw) = 29

----------------------------------------------------------------------------
(* The detector's claims.                                                  *)

\* the pattern fully matches the buffer
FullMatch(buf, bytes) ==
  /\ Len(buf) >= Len(bytes)
  /\ \A i \in 1..Len(bytes) : bytes[i] = WILDCARD \/ buf[i] = bytes[i]

\* the registry entries whose pattern fully matches the buffer
Matching == {k \in 1..Len(registry) : FullMatch(buffer, registry[k].bytes)}

FirstMatching == CHOOSE k \in Matching : \A j \in Matching : k <= j

\* the part of a tag before its first separator, the whole tag without one
FamilyOf(key) ==
  IF \A i \in 1..Len(key) : key[i] # "_" THEN key
  ELSE LET first == CHOOSE i \in 1..Len(key) :
                      /\ key[i] = "_"
                      /\ \A j \in 1..(i - 1) : key[j] # "_"
       IN  [i \in 1..(first - 1) |-> key[i]]

\* C8: the entries are tested in registration order and the type returned
\* is that of the lowest-index entry whose pattern fully matches the
\* buffer, never that of a later one; the scan goes past no matching entry.
C8_FirstMatchWins ==
  /\ \A k \in Matching : e <= k
  /\ dpc = "done" /\ Matching # {} =>
       /\ matched = FirstMatching
       /\ e = FirstMatching
       /\ result = FamilyOf(registry[FirstMatching].key)

C8_Witness ==
  /\ dpc = "done"
  /\ Matching = {2, 3}
  /\ matched = 2
  /\ result = <<"j", "p", "e", "g">>

\* the buffer is the pattern with its wildcard positions filled
IsSignatureOf(buf, bytes) == Len(buf) = Len(bytes) /\ FullMatch(buf, bytes)

C10_AliasStripping ==
  dpc = "done" /\ matched # 0 => result = FamilyOf(registry[matched].key)

C10_Witness ==
  /\ dpc = "done"
  /\ matched = 3
  /\ registry[3].key = <<"s", "v", "g", "_", "a", "_", "b">>
  /\ result = <<"s", "v", "g">>

\* C11: for every buffer that no entry of the registry matches, the empty
\* buffer among them, the detector returns null as a plain value: the scan
\* ends, no entry is recorded as matched, and no position past the buffer's
\* end was read on the way.
C11_NoMatchIsNull ==
  /\ Matching = {} /\ dpc = "scan" => ENABLED DetectNext
  /\ Matching = {} /\ dpc = "done" =>
       /\ result = NullType
       /\ matched = 0
       /\ e = Len(registry)
       /\ read <= Len(buffer)

C11_Witness ==
  /\ dpc = "done"
  /\ registry = imageTypes
  /\ buffer = <<>>
  /\ Matching = {}
  /\ result = NullType

----------------------------------------------------------------------------
(* The policy's claims.                                                    *)

\* optimize has gone past its decision chain
Decided == opc \in {"codec", "done"}

\* definitions.ts is in force as it is
AsDefined ==
  definitions = [animatableTypes |-> animatableTypes,
                 bypassTypes |-> bypassTypes]

\* the buffer holds several frames and its type is one that may
AnimatedInput ==
  result \in definitions.animatableTypes /\ source.animated

C13_AnimatedGate ==
  Decided =>
    /\ (outcome.kind = "threw"
          /\ outcome.error.message = "Unable to optimize and animated image")
       <=> AnimatedInput
    /\ isAnimatedCalls =
         (IF result \in definitions.animatableTypes THEN 1 ELSE 0)

C13_Witness ==
  /\ opc = "done"
  /\ result = png
  /\ source.animated
  /\ isAnimatedCalls = 1
  /\ outcome.kind = "threw"
  /\ outcome.error.message = "Unable to optimize and animated image"

C15_Bypass ==
  /\ opc # "idle" /\ dpc = "done"
  /\ result \in definitions.bypassTypes
  /\ ~AnimatedInput
  /\ ~(result = svg /\ ~args.allowSVG)
  => /\ sharpCalls = <<>>
     /\ opc \in {"detect", "done"}
     /\ opc = "done" =>
          /\ outcome.kind = "returned"
          /\ outcome.buffer = buffer

C15_Witness ==
  /\ opc = "done"
  /\ result = bmp
  /\ bmp \in definitions.bypassTypes
  /\ args.width = 2 /\ args.quality = 80
  /\ sharpCalls = <<>>
  /\ outcome.kind = "returned"
  /\ outcome.buffer = <<66, 77>>

\* the encoder options of the i-th codec invocation
FormatOf(i) == sharpCalls[i].format

\* C16: for every requested quality q, a buffer detected as avif is
\* encoded with quality max(q - 20, 1) and effort 3, one detected as webp
\* with quality q, one detected as jpeg with quality q and mozjpeg on; the
\* avif quality handed to the codec is never below 1.
C16_QualityMapping ==
  \A i \in 1..Len(sharpCalls) :
    LET q == args.quality
    IN  /\ result = avif =>
             /\ FormatOf(i) =
                  [encoder |-> "avif",
                   quality |-> IF q - 20 >= 1 THEN q - 20 ELSE 1,
                   effort |-> 3]
             /\ FormatOf(i).quality >= 1
        /\ result = webp => FormatOf(i) = [encoder |-> "webp", quality |-> q]
        /\ result = jpeg =>
             FormatOf(i) = [encoder |-> "jpeg", quality |-> q,
                            mozjpeg |-> TRUE]

C16_Witness ==
  /\ Len(sharpCalls) = 1
  /\ result = avif
  /\ args.quality = 20
  /\ FormatOf(1).quality = 1
  /\ FormatOf(1).effort = 3

\* C17 as stated: for png the requested quality is handed to the png
\* encoder as its compression effort and not as a lossy-quality option.
C17_PngEffort ==
  \A i \in 1..Len(sharpCalls) :
    result = png =>
      /\ FormatOf(i).encoder = "png"
      /\ "quality" \notin DOMAIN FormatOf(i)
      /\ \/ "effort" \in DOMAIN FormatOf(i)
            /\ FormatOf(i).effort = args.quality
         \/ "compressionLevel" \in DOMAIN FormatOf(i)
            /\ FormatOf(i).compressionLevel = args.quality

\* C17: for png the requested quality is handed to the png encoder
\* unchanged as its quality option, the option webp and jpeg get it as,
\* and no effort or compression-level option is set.
C17_PngQuality ==
  \A i \in 1..Len(sharpCalls) :
    result = png =>
      FormatOf(i) = [encoder |-> "png", quality |-> args.quality]

C17_Witness ==
  /\ Len(sharpCalls) = 1
  /\ result = png
  /\ args.quality = 80
  /\ FormatOf(1).encoder = "png"
  /\ FormatOf(1).quality = 80

\* C18: every codec invocation optimize makes has orientation
\* auto-correction applied and a resize with the requested width as bound
\* and enlargement disabled, so for a source narrower than the requested
\* width the output keeps the source's width and height.
C18_NeverEnlarge ==
  /\ \A i \in 1..Len(sharpCalls) :
       /\ sharpCalls[i].rotate
       /\ sharpCalls[i].resize =
            [width |-> args.width, withoutEnlargement |-> TRUE]
  /\ /\ sharpAnswers = <<"resolved">>
     /\ opc = "done"
     /\ source.width < args.width
     => /\ outcome.kind = "returned"
        /\ outcome.image.width = source.width
        /\ outcome.image.height = source.height

C18_Witness ==
  /\ opc = "done"
  /\ sharpAnswers = <<"resolved">>
  /\ source.width = 1 /\ source.height = 2
  /\ args.width = 2
  /\ sharpCalls[1].resize.withoutEnlargement
  /\ outcome.image.width = 1 /\ outcome.image.height = 2

\* C19: one optimize call invokes the codec at most once; if the codec
\* fails, optimize fails with the codec's error unchanged, makes no second
\* codec call, and returns no buffer.
C19_NoRetry ==
  /\ Len(sharpCalls) <= 1
  /\ \A i \in 1..Len(sharpAnswers) :
       sharpAnswers[i] = "rejected" =>
         /\ opc = "done"
         /\ outcome = [kind |-> "threw", error |-> CodecError]
         /\ Len(sharpCalls) = 1

C19_Witness ==
  /\ opc = "done"
  /\ sharpCalls # <<>>
  /\ sharpAnswers = <<"rejected">>
  /\ outcome.kind = "threw"
  /\ outcome.error = CodecError

\* C20: on a response whose status is not 2xx fetchAndOptimize fails with
\* an error of status 502 whose message is 'Unable to fetch the image.
\* [HTTP <status code>]' with the numeric response status and whose
\* 'response' property is the response body text; optimize is not run on
\* that body and no result is returned.
C20_UpstreamFailure ==
  fpc = "done" /\ ~Ok(response.status) /\ fetched # Rejected(FetchFailed) =>
    /\ fetched.kind = "threw"
    /\ fetched.error.code = <<"number", 502>>
    /\ fetched.error.message =
         "Unable to fetch the image. [HTTP " \o ToString(response.status)
         \o "]"
    /\ fetched.error.response = Text(response.body)
    /\ opc = "idle" /\ dpc = "idle"
    /\ sharpCalls = <<>>

\* C21: on a 2xx response fetchAndOptimize returns contentType and
\* cacheControl equal to what the response's 'content-type' and
\* 'cache-control' headers hold, verbatim, and null for each header the
\* response does not carry; no value is defaulted or derived from the
\* detected type.
C21_HeadersVerbatim ==
  fpc = "done" /\ fetched.kind = "returned" =>
    /\ Ok(response.status)
    /\ fetched.value.contentType = response.contentType
    /\ fetched.value.cacheControl = response.cacheControl
    /\ fetched.value.buffer = outcome.buffer

C21_Witness ==
  /\ fpc = "done"
  /\ response.status = 200
  /\ response.contentType = Null
  /\ response.cacheControl = <<65>>
  /\ result = png
  /\ fetched.kind = "returned"
  /\ fetched.value.contentType = Null
  /\ fetched.value.cacheControl = <<65>>

----------------------------------------------------------------------------
(* The Queue's claims.                                                     *)

\* the job queues that were started, or are being, and are not stopped
Running ==
  {i \in 1..Len(jobQueues) : jobQueues[i] \in {"starting", "started", "stopping"}}

\* no call is between two of its awaits
Settled == \A c \in 1..Len(calls) : ~InFlight(c)

\* C22: start() on a Queue that is already started returns without
\* constructing or starting another job queue, so with calls made one
\* after the other exactly one job queue exists while the Queue is started
\* and a single stop() leaves none running; stop() on a Queue that is not
\* started is a no-op.
C22_StartIdempotent ==
  /\ \A c \in 1..Len(calls) :
       calls[c].op = "start" /\ calls[c].ready =>
         calls[c].pc = "returned" /\ calls[c].q = 0
  /\ \A c \in 1..Len(calls) :
       calls[c].op = "stop" /\ ~calls[c].ready =>
         calls[c].pc = "returned" /\ calls[c].q = 0
  /\ ~overlapped =>
       /\ Cardinality(Running) <= 1
       /\ Settled => Running = (IF started THEN {queue} ELSE {})

C22_Witness ==
  /\ ~overlapped
  /\ Len(calls) = 3
  /\ calls[1].op = "start" /\ ~calls[1].ready /\ calls[1].q = 1
  /\ calls[2].op = "start" /\ calls[2].ready /\ calls[2].pc = "returned"
  /\ calls[3].op = "stop" /\ calls[3].pc = "returned"
  /\ jobQueues = <<"stopped">>

\* C23: when fetchAndOptimize is called on a Queue that is not started the
\* Queue is started first and the job is enqueued only after that start
\* has completed; with calls made one after the other the job goes to the
\* job queue that start constructed, which is started, and a call on a
\* Queue that was stopped constructs a fresh job queue, every earlier one
\* staying stopped.
C23_AutoStart ==
  \A i \in 1..Len(enqueued) :
    LET a == enqueued[i]
        c == calls[a.call]
    IN  ~c.ready =>
          /\ c.q # 0
          /\ jobQueues[c.q] # "starting"
          /\ ~overlapped =>
               /\ a.target = c.q
               /\ a.state = "started"
               /\ \A j \in 1..(c.q - 1) : jobQueues[j] = "stopped"

C23_Witness ==
  /\ ~overlapped
  /\ Len(calls) = 3
  /\ calls[2].op = "stop" /\ calls[2].ready
  /\ calls[3].op = "fetchAndOptimize" /\ ~calls[3].ready
  /\ calls[3].pc = "enqueued"
  /\ jobQueues = <<"stopped", "started">>
  /\ enqueued = <<[call |-> 3, target |-> 2, state |-> "started"]>>

\* C24: if loading the job-queue module fails with code
\* ERR_MODULE_NOT_FOUND and a message naming '@platformatic/job-queue',
\* start fails with InternalServerError 'The Queue requires
\* @platformatic/job-queue to be installed' whose cause is the original
\* error; any other load error is rethrown unchanged; in both cases the
\* Queue stays not started, with no job queue.
C24_MissingDependency ==
  ~jobQueueModule.loaded =>
    LET error == jobQueueModule.error
        named == \E i \in 1..Len(error.message) :
                   error.message[i] = "'@platformatic/job-queue'"
    IN  /\ queue = 0 /\ ~started /\ jobQueues = <<>> /\ enqueued = <<>>
        /\ \A c \in 1..Len(calls) :
             /\ calls[c].op = "start" => calls[c].pc \in {"loading", "threw"}
             /\ calls[c].pc = "threw" =>
                  IF error.code = "ERR_MODULE_NOT_FOUND" /\ named
                  THEN calls[c].error =
                         [name |-> "InternalServerError",
                          statusCode |-> 500,
                          message |-> "The Queue requires @platformatic/job-queue to be installed",
                          cause |-> error]
                  ELSE calls[c].error = error

C24_Witness ==
  /\ jobQueueModule = Failed(MissingJobQueue)
  /\ Len(calls) >= 1
  /\ calls[1].op = "start"
  /\ calls[1].pc = "threw"
  /\ calls[1].error.name = "InternalServerError"
  /\ calls[1].error.cause = MissingJobQueue
  /\ ~started

\* C28: whatever the interleaving of start() and fetchAndOptimize() calls
\* made while the Queue is not yet started, at most one job queue is
\* constructed and started, so no started job queue is left that #queue
\* does not refer to.
C28_SingleJobQueue ==
  (\A c \in 1..Len(calls) : calls[c].op # "stop") =>
    /\ Cardinality(Running) <= 1
    /\ \A i \in 1..Len(jobQueues) : jobQueues[i] = "started" => queue = i

\* C29: whenever #enqueueAndWait reaches its enqueue call, #queue is not
\* null and the job queue it refers to is started, in every interleaving
\* of fetchAndOptimize() with stop() and start() calls.
C29_EnqueueOnStarted ==
  \A i \in 1..Len(enqueued) :
    enqueued[i].target # 0 /\ enqueued[i].state = "started"

----------------------------------------------------------------------------
(* The job's claims.                                                       *)

\* C25 as stated: for the same upstream response Queue.fetchAndOptimize
\* resolves to a result deep-equal to the one the direct fetchAndOptimize
\* returns: the same buffer, the same contentType and the same
\* cacheControl, null for each missing header.
C25_QueueTransparent ==
  queued.kind = "returned" => queued.value = fetched.value

\* what a header value is once it went through the queue
Queued(v) == IF v = <<>> THEN Null ELSE v

\* C25: for the same upstream response Queue.fetchAndOptimize resolves to
\* the buffer the direct fetchAndOptimize returns and, for each header,
\* to the same value, null for a missing header, except that a header
\* sent with an empty value is '' in the direct result and null in the
\* queued one; and whenever the direct call returns, the queued one does.
C25_QueueTransparentButEmpty ==
  /\ queued.kind = "returned" =>
       /\ fetched.kind = "returned"
       /\ queued.value.buffer = fetched.value.buffer
       /\ queued.value.contentType = Queued(fetched.value.contentType)
       /\ queued.value.cacheControl = Queued(fetched.value.cacheControl)
  /\ queued.kind = "threw" => fetched.kind = "threw"

C25_Witness ==
  /\ queued.kind = "returned"
  /\ fetched.value.buffer = <<201, 202>>
  /\ fetched.value.contentType = <<233>>
  /\ fetched.value.cacheControl = Null
  /\ queued.value = fetched.value

\* the step of optimize that settles this call, the tests being made in the
\* order unknown type, animated, SVG allowance, bypass, codec
DecidingStep ==
  IF result = NullType THEN "invalid"
  ELSE IF AnimatedInput THEN "animated"
  ELSE IF result = svg /\ ~args.allowSVG THEN "svg"
  ELSE IF result \in definitions.bypassTypes THEN "bypass"
  ELSE "codec"

RejectedWith(message) ==
  /\ outcome.kind = "threw"
  /\ outcome.error.code = <<"number", 400>>
  /\ outcome.error.message = message

\* C26: optimize makes its tests in the order unknown type, animated, SVG
\* allowance, bypass, codec, and the first that applies settles the call:
\* an animated buffer of an animatable type fails with the animated-image
\* error even when its type is also in the bypass set or is svg with
\* allowSVG true; a refused svg is refused whether or not svg is in the
\* bypass set; after a rejection or a pass-through no later step runs (the
\* codec is never invoked, and the animated-frame detector is not invoked
\* for an unknown type).
C26_DecisionOrder ==
  /\ Decided =>
       /\ DecidingStep = "codec" <=> sharpCalls # <<>>
       /\ DecidingStep = "invalid" => isAnimatedCalls = 0
       /\ DecidingStep # "codec" => opc = "done"
  /\ opc = "done" =>
       /\ DecidingStep = "invalid" => RejectedWith("Invalid input image")
       /\ DecidingStep = "animated"
            => RejectedWith("Unable to optimize and animated image")
       /\ DecidingStep = "svg"
            => RejectedWith("Optimization of SVG images is not allowed")
       /\ DecidingStep = "bypass"
            => /\ outcome.kind = "returned"
               /\ outcome.buffer = buffer
       /\ DecidingStep = "codec"
            => \/ outcome.kind = "threw" /\ outcome.error = CodecError
               \/ outcome.kind = "returned"
                    /\ outcome.buffer \in EncodedBuffers

C26_Witness ==
  /\ opc = "done"
  /\ result = svg /\ args.allowSVG
  /\ svg \in definitions.animatableTypes
  /\ svg \in definitions.bypassTypes
  /\ source.animated
  /\ RejectedWith("Unable to optimize and animated image")
  /\ sharpCalls = <<>>

\* the entries whose pattern is longer than the buffer
Longer == {k \in 1..Len(registry) : Len(registry[k].bytes) > Len(buffer)}

\* every position of the buffer that the pattern of entry k covers agrees
\* with the pattern
AgreesWithin(k) ==
  \A i \in 1..Len(buffer) :
    registry[k].bytes[i] = WILDCARD \/ registry[k].bytes[i] = buffer[i]

\* C27: detectImageType skips every registry entry whose pattern is longer
\* than the buffer: such an entry never matches, even when every position
\* within the buffer agrees with the pattern, and no position of the buffer
\* at or beyond its length is ever read, for any buffer and any registry.
C27_ShortBuffers ==
  /\ matched \notin Longer
  /\ read <= Len(buffer)
  /\ dpc = "scan" /\ e < Len(registry) /\ (e + 1) \in Longer
       => ENABLED SkipShort /\ ~ENABLED Match /\ ~ENABLED Mismatch

C27_Witness ==
  /\ dpc = "done"
  /\ buffer = <<1>>
  /\ Longer = 1..Len(registry)
  /\ \A k \in Longer : AgreesWithin(k)
  /\ registry[1].bytes = <<1, 1>>
  /\ registry[2].bytes = <<1, WILDCARD>>
  /\ result = NullType
  /\ read = 0

\* the bytes of the string field whose length prefix is at cursor c
StringBytes(c) == SubSeq(raw, c + UINT64_SIZE + 1, After(c))

RECURSIVE ValidUtf8(_)
\* the bytes are well-formed UTF-8: shortest forms only, no surrogate, no
\* code point above U+10FFFF
ValidUtf8(bytes) ==
  IF bytes = <<>> THEN TRUE
  ELSE LET b == bytes[1]
           n == IF b < 128 THEN 1
                ELSE IF b >= 194 /\ b <= 223 THEN 2
                ELSE IF b >= 224 /\ b <= 239 THEN 3
                ELSE IF b >= 240 /\ b <= 244 THEN 4
                ELSE 0
           lo == IF b = 224 THEN 160 ELSE IF b = 240 THEN 144 ELSE 128
           hi == IF b = 237 THEN 159 ELSE IF b = 244 THEN 143 ELSE 191
       IN  /\ n > 0
           /\ Len(bytes) >= n
           /\ n >= 2 => bytes[2] >= lo /\ bytes[2] <= hi
           /\ \A i \in 3..n : bytes[i] >= 128 /\ bytes[i] <= 191
           /\ ValidUtf8(SubSeq(bytes, n + 1, Len(bytes)))

\* the triple deserialize returned
Decoded ==
  [buffer |-> out.buffer, contentType |-> out.contentType,
   cacheControl |-> out.cacheControl]

\* C30: the encoding is canonical: for every blob b that deserialize
\* accepts and whose two string fields hold valid UTF-8,
\* serialize(deserialize(b)) is b byte for byte, whatever the allocated
\* memory held; so two different accepted blobs of that kind never decode
\* to the same triple.
C30_Canonical ==
  pc = "done" /\ out.error = ""
    /\ ValidUtf8(StringBytes(Cursor2)) /\ ValidUtf8(StringBytes(Cursor3))
  => \A fill \in FillBytes : serialize(Decoded, fill) = raw

C30_Witness ==
  /\ pc = "done" /\ tampered /\ out.error = ""
  /\ StringBytes(Cursor2) = <<194, 169>>
  /\ StringBytes(Cursor3) = <<>>
  /\ out.contentType = <<169>>
  /\ out.cacheControl = Null
  /\ \A fill \in FillBytes : serialize(Decoded, fill) = raw

====
